---- MODULE Spec2Model ----
(***************************************************************************)
(* Model of the chat back end: the in-memory session registry of           *)
(* ChatService (Express server) with its HTTP handlers, the periodic       *)
(* cleanup timer, and the command-line TextChatInterface.                  *)
(*                                                                         *)
(* Node runs every handler to completion on one thread, so a synchronous   *)
(* handler is one action.  The only suspension point is the await on the   *)
(* provider call in sendMessage: a send is split into the part up to the   *)
(* await and the continuation that runs when the provider promise settles. *)
(* A handler leaves its response in res; the event loop takes the next     *)
(* callback once the handler has returned and res is empty again.  Both    *)
(* programs begin at their start, where GEMINI_API_KEY is tested.          *)
(***************************************************************************)
EXTENDS Integers, Sequences, FiniteSets, Bags, TLC

\* ------------------------------------------------------------------ bounds
NumIds     == 1   \* caller-supplied session ids 1..NumIds
NumUuids   == 1   \* ids uuidv4() can still hand out
NumMsgs    == 2   \* distinct user messages
NumTexts   == 1   \* distinct provider answers
MaxCalls   == 2   \* POST /api/chat/message requests in flight at once
MaxObj     == 2   \* session objects alive at once (registered or still held)
MaxHist    == 2   \* exchanges per history
MaxTicks   == 1   \* milliseconds the clock advances during a run
ActiveHours == 1  \* hours during which requests arrive, in the runs over days

\* ------------------------------------------------------- program constants
DefaultMaxAge == 24 * 60 * 60 * 1000
MsPerDay      == 24 * 60 * 60 * 1000

Null   == 0       \* a falsy request field: undefined, null or ""
NoObj  == 0       \* no session object
Undef  == -1      \* undefined: maxAge absent from the request body, no exit code yet

SuppliedIds == 1..NumIds
Uuids       == {100 + i : i \in 1..NumUuids}
Keys        == SuppliedIds \cup Uuids
Msgs        == 1..NumMsgs
Texts       == 1..NumTexts
Objs        == 1..MaxObj
ClockDrift  == {0, 1}
MaxAges     == {Undef, 0, 1}
GatewayErrors == {<<"fetch failed">>}

VARIABLES
  program,    \* which entry point was started: "server" (test2.js) or "cli"
  proc,       \* the process: its position (start, running, exited), whether
              \* GEMINI_API_KEY is set, and its exit code
  now,        \* the wall clock, in milliseconds
  sessions,   \* ChatService.sessions: key -> session object (NoObj: no entry)
  heap,       \* the session objects
  calls,      \* the bag of sendMessage calls suspended at their await
  res,        \* the HTTP response the running handler has written
  completed,  \* history variable: per session object, the sends that
              \* completed since it was created or last cleared
  overlapped, \* history variable: the step just taken completed a send while
              \* another call was suspended on the same session object
  cli         \* the TextChatInterface object and the position of its chat loop

vars == <<program, proc, now, sessions, heap, calls, res, completed, overlapped, cli>>

server == <<now, sessions, heap, calls, res, completed, overlapped>>

\* --------------------------------------------------------------- timestamps
\* Date.prototype.toISOString: calendar day and time of day, to the millisecond
ToISO(t) == <<t \div MsPerDay, t % MsPerDay>>

\* new Date(isoString): back to milliseconds since the epoch
FromISO(s) == s[1] * MsPerDay + s[2]

\* the process starts one millisecond before midnight of day 0
StartTime == MsPerDay - 1

\* the largest value the clock takes in the model
MaxClock == StartTime + MaxTicks

\* --------------------------------------------------------------- error text
NotFoundMsg == <<"Session not found">>

\* String.prototype.includes on an error message built by concatenation
Includes(msg, part) == \E i \in 1..Len(msg) : msg[i] = part[1]

\* the catch blocks of the handlers: 404 for a missing session, else 500
StatusOf(msg) == IF Includes(msg, NotFoundMsg) THEN 404 ELSE 500

\* ------------------------------------------------------------------- heap
\* Session objects are shared by reference between the map and the calls
\* suspended at their await, so they live in a heap of MaxObj slots.  The
\* exchange id and the exchange timestamp are written once and never read by
\* the service; they are not represented.
Free == [free |-> TRUE]

\* generativeModel.startChat({ history: [] }): a provider chat context that
\* holds no turn yet
StartChat == [started |-> TRUE, turns |-> <<>>]

\* this.chatSession = null: no provider chat context
NoChat == [started |-> FALSE, turns |-> <<>>]

\* the provider chat context records the turn of a send that succeeded
AddTurn(chat, exchange) == [chat EXCEPT !.turns = Append(@, exchange)]

\* a suspended call holds the session object it looked up, its message, and
\* the chat context it was made on (session.chatSession is read before the
\* await): live tells whether that context is still the one of its session
Call(o, message) == [session |-> o, message |-> message, live |-> TRUE]

\* the calls of bag c once session object o has been given a new chat
\* context: those suspended on o keep the context that was replaced
Detach(c, o) ==
  LET Old(x) == IF x.session = o THEN [x EXCEPT !.live = FALSE] ELSE x
      Copies(y) == {x \in BagToSet(c) : Old(x) = y}
      Sum(y) == LET a == [y EXCEPT !.live = TRUE]
                    b == [y EXCEPT !.live = FALSE]
                IN (IF a \in Copies(y) THEN c[a] ELSE 0) + (IF b \in Copies(y) THEN c[b] ELSE 0)
  IN [y \in {Old(x) : x \in BagToSet(c)} |-> Sum(y)]

\* the calls suspended on session object o
CallsOn(c, o) == [x \in {y \in BagToSet(c) : y.session = o} |-> c[x]]

Referenced(s, c) == {s[k] : k \in Keys} \cup {x.session : x \in BagToSet(c)}

\* a session object nothing refers to any more is reclaimed
Release(h, s, c) == [o \in Objs |-> IF o \in Referenced(s, c) THEN h[o] ELSE Free]

ReleaseLog(l, s, c) == [o \in Objs |-> IF o \in Referenced(s, c) THEN l[o] ELSE <<>>]

FreeObjs == {o \in Objs : heap[o] = Free}

LiveObjs == Objs \ FreeObjs

NewObj == CHOOSE o \in FreeObjs : \A p \in FreeObjs : o <= p

Registered == {k \in Keys : sessions[k] # NoObj}

\* uuidv4() for a session: the ids it can hand out are those not in use
FreshUuids == {u \in Uuids : sessions[u] = NoObj /\ \A o \in LiveObjs : heap[o].id # u}

\* what a handler writes: status, error text and, for the cleanup, its counts
Response(op, status, error, value) ==
  [op |-> op, status |-> status, error |-> error, value |-> value]

\* ------------------------------------------------------------- ChatService
\* a lookup that falls back to some registered session when the id is unknown
GetSessionOrAny(sessionId) ==
  IF sessionId \in Keys /\ sessions[sessionId] # NoObj
    THEN [ok |-> TRUE, session |-> sessions[sessionId], error |-> <<>>]
    ELSE IF Registered # {}
      THEN [ok |-> TRUE, session |-> sessions[CHOOSE k \in Registered : TRUE],
            error |-> <<>>]
      ELSE [ok |-> FALSE, session |-> NoObj, error |-> NotFoundMsg]

\* getSession: the registered object, or the 'Session not found' error
GetSession(sessionId) ==
  IF sessionId \in Keys /\ sessions[sessionId] # NoObj
    THEN [ok |-> TRUE, session |-> sessions[sessionId], error |-> <<>>]
    ELSE [ok |-> FALSE, session |-> NoObj, error |-> NotFoundMsg]

\* the session record createSession builds, with its two clock readings
NewSession(id, created, last) ==
  [id |-> id, chatSession |-> StartChat, history |-> <<>>,
   createdAt |-> ToISO(created), lastActivity |-> ToISO(last)]

\* a registration that also fills every empty key with the same object
RegisterSessionAlias(s, id, o) ==
  [k \in DOMAIN s |-> IF k = id \/ s[k] = NoObj THEN o ELSE s[k]]

\* this.sessions.set(id, session)
RegisterSession(s, id, o) == [s EXCEPT ![id] = o]

\* createSession(sessionId): the map and heap afterwards and the session returned
CreateSession(id, d) ==
  LET o == NewObj IN
  [sessions |-> RegisterSession(sessions, id, o),
   heap     |-> [heap EXCEPT ![o] = NewSession(id, now, now + d)],
   session  |-> o]

\* a push that writes over the newest entry instead of appending after it
PushExchangeLost(session, exchange, t) ==
  [session EXCEPT
     !.history = IF @ = <<>> THEN <<exchange>> ELSE [@ EXCEPT ![Len(@)] = exchange],
     !.lastActivity = ToISO(t)]

\* a push that puts the new exchange in front
PushExchangeFront(session, exchange, t) ==
  [session EXCEPT !.history = <<exchange>> \o @, !.lastActivity = ToISO(t)]

\* a push that records the creation time as the time of the activity
PushExchangeStale(session, exchange, t) ==
  [session EXCEPT !.history = Append(@, exchange), !.lastActivity = session.createdAt]

\* lines 83-91 of sendMessage: the exchange is pushed and the activity time set
PushExchange(session, exchange, t) ==
  [session EXCEPT !.history = Append(@, exchange), !.lastActivity = ToISO(t)]

\* getSessionHistory(sessionId)
GetSessionHistory(sessionId) ==
  LET r == GetSession(sessionId) IN
  IF r.ok
    THEN [ok |-> TRUE, error |-> <<>>,
          value |-> [sessionId |-> heap[r.session].id,
                     createdAt |-> heap[r.session].createdAt,
                     lastActivity |-> heap[r.session].lastActivity,
                     messageCount |-> Len(heap[r.session].history),
                     history |-> heap[r.session].history]]
    ELSE [ok |-> FALSE, error |-> <<"Failed to get session history: ">> \o r.error]

\* a delete that empties the whole map
DeleteSessionAll(sessionId) ==
  LET r == GetSession(sessionId) IN
  IF r.ok
    THEN [ok |-> TRUE, error |-> <<>>,
          sessions |-> [k \in Keys |-> NoObj],
          value |-> [sessionId |-> sessionId, deletedAt |-> ToISO(now)]]
    ELSE [ok |-> FALSE, error |-> <<"Failed to delete session: ">> \o r.error,
          sessions |-> sessions]

\* deleteSession(sessionId)
DeleteSession(sessionId) ==
  LET r == GetSession(sessionId) IN
  IF r.ok
    THEN [ok |-> TRUE, error |-> <<>>,
          sessions |-> [sessions EXCEPT ![sessionId] = NoObj],
          value |-> [sessionId |-> sessionId, deletedAt |-> ToISO(now)]]
    ELSE [ok |-> FALSE, error |-> <<"Failed to delete session: ">> \o r.error,
          sessions |-> sessions]

\* a clear that forgets to record the activity
ClearSessionSilent(session, t) == [session EXCEPT !.history = <<>>]

\* lines 131-133 of clearSessionHistory
ClearSession(session, t) ==
  [session EXCEPT !.history = <<>>, !.chatSession = StartChat, !.lastActivity = ToISO(t)]

\* clearSessionHistory(sessionId)
ClearSessionHistory(sessionId) ==
  LET r == GetSession(sessionId) IN
  IF r.ok
    THEN [ok |-> TRUE, error |-> <<>>,
          heap |-> [heap EXCEPT ![r.session] = ClearSession(@, now)],
          value |-> [sessionId |-> sessionId, clearedAt |-> ToISO(now)]]
    ELSE [ok |-> FALSE, error |-> <<"Failed to clear session history: ">> \o r.error,
          heap |-> heap]

\* a list that counts user and assistant messages instead of exchanges
GetAllSessionsByMessages ==
  LET list == {[id |-> heap[sessions[k]].id,
                createdAt |-> heap[sessions[k]].createdAt,
                lastActivity |-> heap[sessions[k]].lastActivity,
                messageCount |-> 2 * Len(heap[sessions[k]].history)] : k \in Registered}
  IN [sessions |-> list, count |-> Cardinality(Registered)]

\* getAllSessions: one summary per entry of the map
GetAllSessions ==
  LET list == {[id |-> heap[sessions[k]].id,
                createdAt |-> heap[sessions[k]].createdAt,
                lastActivity |-> heap[sessions[k]].lastActivity,
                messageCount |-> Len(heap[sessions[k]].history)] : k \in Registered}
  IN [sessions |-> list, count |-> Cardinality(Registered)]

\* a staleness test that takes the age of the session for its inactivity
StaleByCreation(session, t, maxAge) == t - FromISO(session.createdAt) > maxAge

\* a staleness test that also catches the session aged exactly maxAge
StaleInclusive(session, t, maxAge) == t - FromISO(session.lastActivity) >= maxAge

\* line 156: is the session older than maxAge at time t
Stale(session, t, maxAge) == t - FromISO(session.lastActivity) > maxAge

\* the for-of loop of cleanupInactiveSessions over the entries still to visit
RECURSIVE CleanupLoop(_, _, _, _, _)
CleanupLoop(s, todo, t, maxAge, cleaned) ==
  IF todo = {}
    THEN [sessions |-> s, cleaned |-> cleaned]
    ELSE LET k == CHOOSE x \in todo : \A y \in todo : x <= y IN
         IF Stale(heap[s[k]], t, maxAge)
           THEN CleanupLoop([s EXCEPT ![k] = NoObj], todo \ {k}, t, maxAge, cleaned + 1)
           ELSE CleanupLoop(s, todo \ {k}, t, maxAge, cleaned)

\* cleanupInactiveSessions(maxAge), the default applying when maxAge is undefined
CleanupInactiveSessions(maxAge) ==
  LET age == IF maxAge = Undef THEN DefaultMaxAge ELSE maxAge
      out == CleanupLoop(sessions, Registered, now, age, 0)
  IN [sessions |-> out.sessions,
      value |-> [cleaned |-> out.cleaned,
                 remaining |-> Cardinality({k \in Keys : out.sessions[k] # NoObj})]]

\* ------------------------------------------------------------------ actions
\* constructor of TextChatInterface, and the loop about to ask its first question
NewCli == [pc |-> "prompt", input |-> <<>>, chatSession |-> NoChat,
           conversationHistory |-> <<>>, isClosing |-> FALSE, shutdowns |-> 0,
           reply |-> [said |-> <<>>, text |-> Null]]

Init ==
  /\ program \in {"server", "cli"}
  /\ proc \in {[pc |-> "start", apiKey |-> k, exitCode |-> Undef] : k \in BOOLEAN}
  /\ cli = NewCli
  /\ now = StartTime
  /\ sessions = [k \in Keys |-> NoObj]
  /\ heap = [o \in Objs |-> Free]
  /\ calls = EmptyBag
  /\ res = Response("none", 0, <<>>, <<>>)
  /\ completed = [o \in Objs |-> <<>>]
  /\ overlapped = FALSE

\* process.exit(code)
Exit(p, code) == [p EXCEPT !.pc = "exited", !.exitCode = code]

\* a start that reports the missing key and goes on
StartLenient(p) == [p EXCEPT !.pc = "running"]

\* the test both entry points make: without GEMINI_API_KEY the process exits
\* with code 1, otherwise it runs
Start(p) == IF ~p.apiKey THEN Exit(p, 1) ELSE [p EXCEPT !.pc = "running"]

\* the callback of app.listen: the server is bound and about to accept requests
Listen ==
  /\ program = "server" /\ proc.pc = "start"
  /\ proc' = Start(proc)
  /\ UNCHANGED <<program, cli, server>>

\* the server process accepts requests and runs its timers
Serving == program = "server" /\ proc.pc = "running"

\* no response is being written
NoResponse == Response("none", 0, <<>>, <<>>)

\* the event loop is between callbacks: the next handler, timer callback or
\* continuation can run
Ready == Serving /\ res = NoResponse

\* the handler has written its response and returns to the event loop
Respond ==
  /\ Serving
  /\ res # NoResponse
  /\ res' = NoResponse
  /\ overlapped' = FALSE
  /\ UNCHANGED <<program, proc, cli, now, sessions, heap, calls, completed>>

\* can the clock advance by step milliseconds within the bounds of the model
CanAdvance(step) == now + step <= MaxClock

\* time passes between handlers
Tick ==
  /\ Ready
  /\ UNCHANGED <<program, proc, cli>>
  /\ overlapped' = FALSE
  /\ CanAdvance(1)
  /\ now' = now + 1
  /\ UNCHANGED <<sessions, heap, calls, res, completed>>

\* POST /api/chat/session
PostSession(sessionId, d) ==
  /\ Ready
  /\ UNCHANGED <<program, proc, cli>>
  /\ overlapped' = FALSE
  /\ FreeObjs # {}
  /\ d = 0 \/ CanAdvance(d)
  /\ \E id \in (IF sessionId = Null THEN FreshUuids ELSE {sessionId}) :
       LET out == CreateSession(id, d) IN
       /\ sessions' = out.sessions
       /\ heap' = Release(out.heap, out.sessions, calls)
       /\ completed' = ReleaseLog([completed EXCEPT ![out.session] = <<>>],
                                  out.sessions, calls)
       /\ res' = Response("createSession", 201, <<>>, <<>>)
  /\ now' = now + d
  /\ UNCHANGED calls

\* exchanges the session object is still to receive from suspended calls
Pending(o) == BagCardinality(CallsOn(calls, o))

\* a validation that looks at the session id only
MissingId(sessionId, message) == sessionId = Null

\* line 201: !sessionId || !message
Missing(sessionId, message) == sessionId = Null \/ message = Null

\* POST /api/chat/message up to the await on the provider call
PostMessage(sessionId, message) ==
  /\ Ready
  /\ UNCHANGED <<program, proc, cli>>
  /\ overlapped' = FALSE
  /\ IF Missing(sessionId, message)
       THEN /\ res' = Response("sendMessage", 400, <<"sessionId and message are required">>, <<>>)
            /\ UNCHANGED calls
       ELSE LET r == GetSession(sessionId) IN
            IF ~r.ok
              THEN LET msg == <<"Failed to send message: ">> \o r.error IN
                   /\ res' = Response("sendMessage", StatusOf(msg), msg, <<>>)
                   /\ UNCHANGED calls
              ELSE /\ BagCardinality(calls) < MaxCalls
                   /\ Len(heap[r.session].history) + Pending(r.session) < MaxHist
                   /\ calls' = calls (+) SetToBag({Call(r.session, message)})
                   /\ UNCHANGED res
  /\ UNCHANGED <<now, sessions, heap, completed>>

\* the provider promise resolves: the rest of sendMessage and of the handler
GatewayResolve(call, text) ==
  /\ Ready
  /\ UNCHANGED <<program, proc, cli>>
  /\ overlapped' = (BagCardinality(CallsOn(calls, call.session)) > 1)
  /\ BagIn(call, calls)
  /\ LET o  == call.session
         ex == [user |-> call.message, assistant |-> text]
         c2 == calls (-) SetToBag({call})
         s2 == IF call.live
                 THEN [heap[o] EXCEPT !.chatSession = AddTurn(@, ex)]
                 ELSE heap[o]
         h2 == [heap EXCEPT ![o] = PushExchange(s2, ex, now)]
     IN /\ calls' = c2
        /\ heap' = Release(h2, sessions, c2)
        /\ completed' = ReleaseLog([completed EXCEPT ![o] = Append(@, ex)], sessions, c2)
        /\ res' = Response("sendMessage", 200, <<>>, <<>>)
  /\ UNCHANGED <<now, sessions>>

\* a send that records the user's half of the exchange before it fails
GatewayRejectPartial(call, err) ==
  /\ Ready
  /\ UNCHANGED <<program, proc, cli>>
  /\ overlapped' = FALSE
  /\ BagIn(call, calls)
  /\ LET o   == call.session
         c2  == calls (-) SetToBag({call})
         msg == <<"Failed to send message: ">> \o err
         h2  == [heap EXCEPT ![o] =
                   PushExchange(@, [user |-> call.message, assistant |-> Null], now)]
     IN /\ calls' = c2
        /\ heap' = Release(h2, sessions, c2)
        /\ completed' = ReleaseLog(completed, sessions, c2)
        /\ res' = Response("sendMessage", StatusOf(msg), msg, <<>>)
  /\ UNCHANGED <<now, sessions>>

\* the provider promise rejects (or response.text() throws): the catch blocks
GatewayReject(call, err) ==
  /\ Ready
  /\ UNCHANGED <<program, proc, cli>>
  /\ overlapped' = FALSE
  /\ BagIn(call, calls)
  /\ LET c2  == calls (-) SetToBag({call})
         msg == <<"Failed to send message: ">> \o err
     IN /\ calls' = c2
        /\ heap' = Release(heap, sessions, c2)
        /\ completed' = ReleaseLog(completed, sessions, c2)
        /\ res' = Response("sendMessage", StatusOf(msg), msg, <<>>)
  /\ UNCHANGED <<now, sessions>>

\* a history read that counts as activity on the session it reads
GetHistoryTouch(sessionId) ==
  /\ Ready
  /\ UNCHANGED <<program, proc, cli>>
  /\ overlapped' = FALSE
  /\ LET out == GetSessionHistory(sessionId)
         r == GetSession(sessionId) IN
     /\ res' = Response("getSessionHistory",
                        IF out.ok THEN 200 ELSE StatusOf(out.error), out.error, <<>>)
     /\ heap' = IF r.ok THEN [heap EXCEPT ![r.session].lastActivity = ToISO(now)]
                        ELSE heap
  /\ UNCHANGED <<now, sessions, calls, completed>>

\* a history read that waits for a process-wide lock held across the await
GetHistoryLocked(sessionId) ==
  /\ Ready
  /\ UNCHANGED <<program, proc, cli>>
  /\ overlapped' = FALSE
  /\ calls = EmptyBag
  /\ LET out == GetSessionHistory(sessionId) IN
     res' = Response("getSessionHistory",
                     IF out.ok THEN 200 ELSE StatusOf(out.error), out.error, <<>>)
  /\ UNCHANGED <<now, sessions, heap, calls, completed>>

\* GET /api/chat/session/:sessionId/history
GetHistory(sessionId) ==
  /\ Ready
  /\ UNCHANGED <<program, proc, cli>>
  /\ overlapped' = FALSE
  /\ LET out == GetSessionHistory(sessionId) IN
     res' = Response("getSessionHistory",
                     IF out.ok THEN 200 ELSE StatusOf(out.error), out.error, <<>>)
  /\ UNCHANGED <<now, sessions, heap, calls, completed>>

\* DELETE /api/chat/session/:sessionId
DeleteHandler(sessionId) ==
  /\ Ready
  /\ UNCHANGED <<program, proc, cli>>
  /\ overlapped' = FALSE
  /\ LET out == DeleteSession(sessionId) IN
     /\ sessions' = out.sessions
     /\ heap' = Release(heap, out.sessions, calls)
     /\ completed' = ReleaseLog(completed, out.sessions, calls)
     /\ res' = Response("deleteSession",
                        IF out.ok THEN 200 ELSE StatusOf(out.error), out.error, <<>>)
  /\ UNCHANGED <<now, calls>>

\* PUT /api/chat/session/:sessionId/clear
PutClear(sessionId) ==
  /\ Ready
  /\ UNCHANGED <<program, proc, cli>>
  /\ overlapped' = FALSE
  /\ LET out == ClearSessionHistory(sessionId) IN
     /\ heap' = out.heap
     /\ completed' = IF out.ok
                       THEN [completed EXCEPT ![GetSession(sessionId).session] = <<>>]
                       ELSE completed
     /\ calls' = IF out.ok THEN Detach(calls, GetSession(sessionId).session) ELSE calls
     /\ res' = Response("clearSessionHistory",
                        IF out.ok THEN 200 ELSE StatusOf(out.error), out.error, <<>>)
  /\ UNCHANGED <<now, sessions>>

\* GET /api/chat/sessions
GetSessions ==
  /\ Ready
  /\ UNCHANGED <<program, proc, cli>>
  /\ overlapped' = FALSE
  /\ res' = Response("getAllSessions", 200, <<>>, <<>>)
  /\ UNCHANGED <<now, sessions, heap, calls, completed>>

\* POST /api/chat/cleanup
PostCleanup(maxAge) ==
  /\ Ready
  /\ UNCHANGED <<program, proc, cli>>
  /\ overlapped' = FALSE
  /\ LET out == CleanupInactiveSessions(maxAge) IN
     /\ sessions' = out.sessions
     /\ heap' = Release(heap, out.sessions, calls)
     /\ completed' = ReleaseLog(completed, out.sessions, calls)
     /\ res' = Response("cleanupInactiveSessions", 200, <<>>,
                        <<out.value.cleaned, out.value.remaining>>)
  /\ UNCHANGED <<now, calls>>

\* the setInterval callback: the hourly sweep with the default maxAge
SweepTimer ==
  /\ Ready
  /\ UNCHANGED <<program, proc, cli>>
  /\ overlapped' = FALSE
  /\ LET out == CleanupInactiveSessions(Undef) IN
     /\ sessions' = out.sessions
     /\ heap' = Release(heap, out.sessions, calls)
     /\ completed' = ReleaseLog(completed, out.sessions, calls)
  /\ UNCHANGED <<now, calls, res>>

\* GET /health
Health ==
  /\ Ready
  /\ UNCHANGED <<program, proc, cli>>
  /\ overlapped' = FALSE
  /\ res' = Response("health", 200, <<>>, <<>>)
  /\ UNCHANGED <<now, sessions, heap, calls, completed>>

\* GET /api/info
Info ==
  /\ Ready
  /\ UNCHANGED <<program, proc, cli>>
  /\ overlapped' = FALSE
  /\ res' = Response("info", 200, <<>>, <<>>)
  /\ UNCHANGED <<now, sessions, heap, calls, completed>>

\* ---------------------------------------------------- TextChatInterface
ApologyText == <<"Sorry, I encountered an error processing your message. Please try again.">>

\* console.log of the answer: the prefix and the text of the provider
AssistantText == <<"Assistant: ">>

\* console.log of a fixed line
Say(line) == [said |-> line, text |-> Null]

\* an input line is the sequence of its characters
UpperCase == <<"A", "B", "C", "D", "E", "F", "G", "H", "I", "J", "K", "L", "M",
               "N", "O", "P", "Q", "R", "S", "T", "U", "V", "W", "X", "Y", "Z">>

LowerCase == <<"a", "b", "c", "d", "e", "f", "g", "h", "i", "j", "k", "l", "m",
               "n", "o", "p", "q", "r", "s", "t", "u", "v", "w", "x", "y", "z">>

LowerChar(ch) ==
  IF \E i \in 1..Len(UpperCase) : UpperCase[i] = ch
    THEN LowerCase[CHOOSE i \in 1..Len(UpperCase) : UpperCase[i] = ch]
    ELSE ch

\* String.prototype.toLowerCase
ToLowerCase(s) == [i \in 1..Len(s) |-> LowerChar(s[i])]

WhiteSpace == {" ", "\t"}

RECURSIVE TrimStart(_)
TrimStart(s) == IF s # <<>> /\ Head(s) \in WhiteSpace THEN TrimStart(Tail(s)) ELSE s

RECURSIVE TrimEnd(_)
TrimEnd(s) ==
  IF s # <<>> /\ s[Len(s)] \in WhiteSpace THEN TrimEnd(SubSeq(s, 1, Len(s) - 1)) ELSE s

\* String.prototype.trim
Trim(s) == TrimEnd(TrimStart(s))

\* the words that end the chat
ExitWords == {<<"e", "x", "i", "t">>, <<"q", "u", "i", "t">>, <<"b", "y", "e">>,
              <<"g", "o", "o", "d", "b", "y", "e">>}

\* ['exit', 'quit', 'bye', 'goodbye'].includes(userInput.toLowerCase().trim())
IsExit(userInput) == Trim(ToLowerCase(userInput)) \in ExitWords

\* userInput.startsWith('/')
StartsWith(s, ch) == s # <<>> /\ s[1] = ch

\* a test for the empty line only, blanks not trimmed
IsBlankStrict(userInput) == userInput = <<>>

\* !userInput.trim()
IsBlank(userInput) == Trim(userInput) = <<>>

\* command.split(' ')[0]: the input up to its first space
RECURSIVE FirstPart(_)
FirstPart(s) ==
  IF s = <<>> \/ Head(s) = " " THEN <<>> ELSE <<Head(s)>> \o FirstPart(Tail(s))

ClearCmd == <<"/", "c", "l", "e", "a", "r">>

\* the commands that only print: /help here, and likewise /history, /save,
\* /model, /firebase, /upload and /recent
PrintCmds == {<<"/", "h", "e", "l", "p">>}

\* the lines the user types
Lines ==
  {<<"e", "x", "i", "t">>, <<" ", "Q", "u", "i", "t", " ">>, <<"B", "Y", "E">>,
   <<"g", "o", "o", "d", "b", "y", "e">>,
   <<"h", "i">>, <<"e", "x", "i", "t", " ", "n", "o", "w">>,
   <<>>, <<" ">>,
   ClearCmd, <<"/", "H", "e", "l", "p">>, <<"/", "x">>}

\* what the commands and the loop print
ClearedText == <<"Conversation history cleared!">>
HelpText == <<"Available Commands:">>
UnknownCommandText == <<"Unknown command. Type '/help' for available commands.">>
EmptyInputText == <<"Please enter a message or command to continue...">>

\* handleCommand(command): was it a command, and the object afterwards
HandleCommand(c, command) ==
  LET cmd == ToLowerCase(FirstPart(command)) IN
  IF cmd = ClearCmd
    THEN [handled |-> TRUE,
          cli |-> [c EXCEPT !.conversationHistory = <<>>, !.reply = Say(ClearedText)]]
    ELSE IF cmd \in PrintCmds
      THEN [handled |-> TRUE, cli |-> [c EXCEPT !.reply = Say(HelpText)]]
      ELSE [handled |-> FALSE, cli |-> c]

\* a close that runs its steps whenever it is called
CloseUnguarded(c) ==
  [c EXCEPT !.isClosing = TRUE, !.shutdowns = @ + 1,
            !.pc = IF c.conversationHistory # <<>> THEN "showHistory" ELSE "done"]

\* close(), up to the question about the history when there is one to show,
\* else to the end: rl.close()
Close(c) ==
  IF c.isClosing
    THEN c
    ELSE [c EXCEPT !.isClosing = TRUE, !.shutdowns = @ + 1,
                   !.pc = IF c.conversationHistory # <<>> THEN "showHistory" ELSE "done"]

\* main(): the test of the key, then new AdvancedTextChat() and initialize()
Main ==
  /\ program = "cli" /\ proc.pc = "start"
  /\ proc' = Start(proc)
  /\ cli' = IF proc'.pc = "running" THEN [NewCli EXCEPT !.chatSession = StartChat] ELSE cli
  /\ UNCHANGED <<program, server>>

\* the chat program is running
Chatting == program = "cli" /\ proc.pc = "running"

\* lines 231-235: the exchange is stored in conversationHistory
StoreExchange(c, text) ==
  [c EXCEPT !.conversationHistory = Append(@, [user |-> c.input, assistant |-> text])]

\* sendMessage(userInput) up to its await on the provider call
CliQuestion(message) ==
  /\ Chatting
  /\ cli.pc = "prompt" /\ ~cli.isClosing
  /\ Len(cli.chatSession.turns) < MaxHist
  /\ cli' = [cli EXCEPT !.pc = "await", !.input = message]
  /\ UNCHANGED <<program, proc, server>>

\* one turn of the loop of startChat: the line read is an exit word, a
\* command, blank, or a message to send
CliLine(userInput) ==
  /\ Chatting
  /\ cli.pc = "prompt" /\ ~cli.isClosing
  /\ IF IsExit(userInput)
       THEN cli' = Close(cli)
       ELSE IF StartsWith(userInput, "/")
         THEN LET out == HandleCommand(cli, userInput) IN
              cli' = IF out.handled
                       THEN out.cli
                       ELSE [out.cli EXCEPT !.reply = Say(UnknownCommandText)]
         ELSE IF IsBlank(userInput)
           THEN cli' = [cli EXCEPT !.reply = Say(EmptyInputText)]
           ELSE CliQuestion(userInput)
  /\ UNCHANGED <<program, proc, server>>

\* the provider promise resolves: the chat context has the turn, the exchange
\* is stored and the text printed
CliGatewayResolve(text) ==
  /\ Chatting
  /\ cli.pc = "await"
  /\ cli' = [StoreExchange(cli, text) EXCEPT
               !.chatSession = AddTurn(@, [user |-> cli.input, assistant |-> text]),
               !.pc = "prompt", !.input = <<>>, !.reply = [said |-> AssistantText, text |-> text]]
  /\ UNCHANGED <<program, proc, server>>

\* the provider promise rejects: sendMessage returns its apology text
CliGatewayReject(err) ==
  /\ Chatting
  /\ cli.pc = "await"
  /\ cli' = [cli EXCEPT !.pc = "prompt", !.input = <<>>, !.reply = Say(ApologyText)]
  /\ UNCHANGED <<program, proc, server>>

\* close() asked whether to show the history; the answer read, it ends: rl.close()
CliHistoryAnswer ==
  /\ Chatting
  /\ cli.pc = "showHistory"
  /\ cli' = [cli EXCEPT !.pc = "done"]
  /\ UNCHANGED <<program, proc, server>>

\* close() is called once more, while the first call waits for the answer
\* about the history or after it has ended
CliCloseAgain ==
  /\ Chatting
  /\ cli.pc \in {"showHistory", "done"}
  /\ cli' = Close(cli)
  /\ UNCHANGED <<program, proc, server>>

Next ==
  \/ Listen
  \/ Respond
  \/ Tick
  \/ \E sid \in SuppliedIds \cup {Null}, d \in ClockDrift : PostSession(sid, d)
  \/ \E sid \in Keys \cup {Null}, m \in Msgs \cup {Null} : PostMessage(sid, m)
  \/ \E call \in BagToSet(calls), t \in Texts : GatewayResolve(call, t)
  \/ \E call \in BagToSet(calls), e \in GatewayErrors : GatewayReject(call, e)
  \/ \E sid \in Keys : GetHistory(sid)
  \/ \E sid \in Keys : DeleteHandler(sid)
  \/ \E sid \in Keys : PutClear(sid)
  \/ GetSessions
  \/ \E m \in MaxAges : PostCleanup(m)
  \/ SweepTimer
  \/ Health
  \/ Info
  \/ Main
  \/ \E l \in Lines : CliLine(l)
  \/ \E t \in Texts : CliGatewayResolve(t)
  \/ \E e \in GatewayErrors : CliGatewayReject(e)
  \/ CliHistoryAnswer
  \/ CliCloseAgain

Spec == Init /\ [][Next]_vars

\* ------------------------------------------------- the sweep over a day
\* the period of the setInterval timer
SweepInterval == 60 * 60 * 1000

\* requests arrive during the first ActiveHours hours
ActiveUntil == StartTime + ActiveHours * SweepInterval

\* the clock runs until every session had the time to expire and be swept
SweepHorizon == ActiveUntil + DefaultMaxAge + SweepInterval

\* an hour passes between callbacks
HourPasses ==
  /\ Ready
  /\ now + SweepInterval <= SweepHorizon
  /\ now' = now + SweepInterval
  /\ overlapped' = FALSE
  /\ UNCHANGED <<program, proc, cli, sessions, heap, calls, res, completed>>

\* the requests that count as activity, while requests arrive: one client
\* that names its session and sends one message at a time
Activity ==
  /\ now <= ActiveUntil
  /\ \/ \E sid \in SuppliedIds : PostSession(sid, 0)
     \/ \E sid \in Registered : calls = EmptyBag /\ PostMessage(sid, 1)
     \/ \E call \in BagToSet(calls), t \in Texts : GatewayResolve(call, t)
     \/ \E sid \in Registered : PutClear(sid)

\* the server started with its key
InitSweep == Init /\ program = "server" /\ proc.apiKey

NextSweep ==
  \/ Listen
  \/ Respond
  \/ HourPasses
  \/ Activity
  \/ SweepTimer

\* the handler returns, time passes and the timer callback runs when due
SpecSweep ==
  /\ InitSweep /\ [][NextSweep]_vars
  /\ WF_vars(Respond) /\ SF_vars(HourPasses) /\ SF_vars(SweepTimer)

\* ================================================================== claims

\* C1: creating a session under an id that is already registered is rejected
\* with 409 and the session registered first stays the one registered.
C1_DuplicateRejected ==
  [][\A k \in SuppliedIds, d \in ClockDrift :
       (sessions[k] # NoObj /\ PostSession(k, d)) =>
         /\ res'.status = 409
         /\ sessions'[k] = sessions[k]
         /\ heap'[sessions[k]] = heap[sessions[k]]]_vars

\* every entry of every history, of a session or of the CLI, is a whole exchange
HistoriesWhole ==
  /\ \A o \in LiveObjs : \A i \in 1..Len(heap[o].history) :
       heap[o].history[i].user \in Msgs /\ heap[o].history[i].assistant \in Texts
  /\ \A i \in 1..Len(cli.conversationHistory) :
       /\ cli.conversationHistory[i].user \in Lines
       /\ cli.conversationHistory[i].assistant \in Texts

\* C2: a send whose provider call fails leaves the session's history and
\* lastActivity as they were (the CLI's conversationHistory likewise), and
\* every history entry always holds a user input and an assistant output.
C2_NoPartialWrite ==
  /\ []HistoriesWhole
  /\ [][\A call \in BagToSet(calls), e \in GatewayErrors :
         GatewayReject(call, e) =>
           /\ sessions' = sessions
           /\ \A o \in Objs : heap'[o] = heap[o] \/
                (o = call.session /\ o \notin Referenced(sessions, calls'))
           /\ \A k \in Registered :
                /\ Len(heap'[sessions[k]].history) = Len(heap[sessions[k]].history)
                /\ heap'[sessions[k]].lastActivity = heap[sessions[k]].lastActivity]_vars
  /\ [][\A x \in GatewayErrors :
         CliGatewayReject(x) => cli'.conversationHistory = cli.conversationHistory]_vars

\* a failed send has just been answered on the only session, which holds an
\* earlier exchange and was last active before now
C2_Witness ==
  /\ program = "server"
  /\ res.op = "sendMessage" /\ res.status = 500
  /\ calls = EmptyBag
  /\ Cardinality(Registered) = 1
  /\ \A k \in Registered :
       Len(heap[sessions[k]].history) = 1 /\ FromISO(heap[sessions[k]].lastActivity) < now

\* the keys under which session object o is registered
KeysOf(o) == {k \in Keys : sessions[k] = o}

\* C3: a sweep leaves registered every session that a suspended send holds.
C3_SweepSparesInFlight ==
  [][((\E m \in MaxAges : PostCleanup(m)) \/ SweepTimer) =>
       \A call \in BagToSet(calls) :
         \A k \in KeysOf(call.session) : sessions'[k] = sessions[k]]_vars

\* C4: sends suspended on the same session lose no update: whichever of them
\* completes, alone or while the other is still suspended, its exchange is
\* appended once after everything the history holds and the other call stays
\* suspended, so two overlapping sends lengthen the history by exactly 2.
C4_NoLostUpdate ==
  [][\A call \in BagToSet(calls), t \in Texts :
       GatewayResolve(call, t) =>
         LET o == call.session IN
         /\ calls' (+) SetToBag({call}) = calls
         /\ BagCardinality(CallsOn(calls', o)) = BagCardinality(CallsOn(calls, o)) - 1
         /\ o \in Referenced(sessions, calls') =>
              /\ heap'[o].history =
                   Append(heap[o].history, [user |-> call.message, assistant |-> t])
              /\ Len(heap'[o].history) = Len(heap[o].history) + 1]_vars

\* the first of two overlapping sends has just completed on a registered
\* session: its exchange is in the history and the other send, with another
\* message, is still suspended
C4_Witness ==
  /\ program = "server"
  /\ res.op = "sendMessage" /\ res.status = 200
  /\ overlapped
  /\ \E d \in BagToSet(calls) :
       /\ KeysOf(d.session) # {}
       /\ Len(heap[d.session].history) = 1
       /\ heap[d.session].history[1].user # d.message

\* the sessions a sweep with this maxAge has to remove
Expired(maxAge) ==
  {k \in Registered : now - FromISO(heap[sessions[k]].lastActivity) > maxAge}

\* C5: the cleanup removes exactly the sessions idle for more than maxAge,
\* keeps the others, and reports the number removed and the number left.
C5_CleanupExact ==
  [][\A m \in MaxAges :
       PostCleanup(m) =>
         LET age == IF m = Undef THEN DefaultMaxAge ELSE m IN
         /\ sessions' = [k \in Keys |-> IF k \in Expired(age) THEN NoObj ELSE sessions[k]]
         /\ res'.value[1] = Cardinality(Expired(age))
         /\ res'.value[2] = Cardinality(Registered')
         /\ res'.value[1] + res'.value[2] = Cardinality(Registered)]_vars

\* a cleanup with maxAge 0 has removed one session and kept one idle for exactly
\* that long
C5_Witness ==
  /\ program = "server"
  /\ res.op = "cleanupInactiveSessions" /\ res.value = <<1, 1>>
  /\ \E k \in Registered : now - FromISO(heap[sessions[k]].lastActivity) = 0

\* C6: an operation on an id that is not registered fails with 'Session not
\* found', answers 404, changes nothing and starts no provider call.
C6_UnknownIdFails ==
  /\ [](\A k \in Keys \ Registered :
          ~GetSession(k).ok /\ GetSession(k).error = NotFoundMsg)
  /\ [][\A k \in Keys :
         (/\ sessions[k] = NoObj
          /\ \/ \E m \in Msgs : PostMessage(k, m)
             \/ GetHistory(k)
             \/ DeleteHandler(k)
             \/ PutClear(k)) =>
           /\ res'.status = 404
           /\ Includes(res'.error, NotFoundMsg)
           /\ UNCHANGED <<sessions, heap, calls>>]_vars

\* a send to an unknown id has been answered 404 while another session is
\* registered and no call is in flight
C6_Witness ==
  /\ program = "server"
  /\ res.op = "sendMessage" /\ res.status = 404
  /\ Registered # {} /\ Registered # Keys
  /\ calls = EmptyBag

\* C7: only deleteSession and the sweep take a registered session out of the
\* map or put another object in its place, and createdAt never changes.
C7_OnlyDeleteOrSweepRemoves ==
  [][\A k \in Registered :
       \/ /\ sessions'[k] = sessions[k]
          /\ heap'[sessions[k]].createdAt = heap[sessions[k]].createdAt
       \/ DeleteHandler(k)
       \/ \E m \in MaxAges : PostCleanup(m)
       \/ SweepTimer]_vars

\* C8: the history of a session is the sequence of the sends that completed
\* on it since it was created or cleared, in the order they completed.
C8_HistoryIsCompletedSends ==
  \A o \in LiveObjs :
    /\ Len(heap[o].history) = Len(completed[o])
    /\ \A i \in 1..Len(completed[o]) :
         /\ heap[o].history[i].user = completed[o][i].user
         /\ heap[o].history[i].assistant = completed[o][i].assistant

\* two sends with different messages have completed one after the other on
\* a registered session
C8_Witness ==
  /\ program = "server"
  /\ res.op = "sendMessage" /\ res.status = 200
  /\ calls = EmptyBag
  /\ \E k \in Registered :
       /\ Len(heap[sessions[k]].history) = 2
       /\ heap[sessions[k]].history[1].user # heap[sessions[k]].history[2].user

\* C9: a clear empties the history of the session, keeps its id, createdAt
\* and registration, sets lastActivity to the time of the call, and changes
\* no other session.
C9_ClearFrame ==
  [][\A k \in Registered :
       PutClear(k) =>
         LET o == sessions[k] IN
         /\ sessions' = sessions
         /\ heap'[o].history = <<>>
         /\ GetSessionHistory(k)'.value.messageCount = 0
         /\ heap'[o].id = heap[o].id
         /\ heap'[o].createdAt = heap[o].createdAt
         /\ FromISO(heap'[o].lastActivity) = now
         /\ \A p \in Objs \ {o} : heap'[p] = heap[p]
         /\ res'.status = 200]_vars

\* a clear has emptied a session created earlier, while the other session
\* still holds its exchange
C9_Witness ==
  /\ program = "server"
  /\ res.op = "clearSessionHistory" /\ res.status = 200
  /\ \E k \in Registered :
       /\ heap[sessions[k]].history = <<>>
       /\ FromISO(heap[sessions[k]].createdAt) < FromISO(heap[sessions[k]].lastActivity)
       /\ \E j \in Registered \ {k} : heap[sessions[j]].history # <<>>

\* C10: a delete removes the session of that id and no other and returns
\* the deletion time; on an absent id it answers 'Session not found' and
\* changes nothing; an absent id stays absent until it is created again.
C10_DeleteExact ==
  /\ [][\A k \in Keys :
         DeleteHandler(k) =>
           IF sessions[k] # NoObj
             THEN /\ sessions' = [sessions EXCEPT ![k] = NoObj]
                  /\ \A j \in Registered \ {k} : heap'[sessions[j]] = heap[sessions[j]]
                  /\ res'.status = 200
                  /\ FromISO(DeleteSession(k).value.deletedAt) = now
                  /\ ~GetSession(k)'.ok
             ELSE /\ res'.status = 404
                  /\ Includes(res'.error, NotFoundMsg)
                  /\ UNCHANGED <<sessions, heap, calls>>]_vars
  /\ [][\A k \in Keys \ Registered :
         sessions'[k] # NoObj =>
           \E sid \in SuppliedIds \cup {Null}, d \in ClockDrift : PostSession(sid, d)]_vars

\* a delete has removed one session and the other, with its exchange, is
\* still registered
C10_Witness ==
  /\ program = "server"
  /\ res.op = "deleteSession" /\ res.status = 200
  /\ Cardinality(Registered) = 1
  /\ \E k \in Registered : heap[sessions[k]].history # <<>>

\* C11: the send endpoint answers 404 for an id that is not registered and
\* 502 when the session exists but the provider call fails, and never the
\* one for the other.
C11_NotFoundVersusGateway ==
  [][/\ \A k \in Keys : \A m \in Msgs :
          (sessions[k] = NoObj /\ PostMessage(k, m)) => res'.status = 404
     /\ \A call \in BagToSet(calls) : \A x \in GatewayErrors :
          GatewayReject(call, x) => res'.status = 502]_vars

\* C12: while a provider call is pending on a session, however long, every
\* operation on that session and on any other stays enabled whenever the
\* event loop is between callbacks: create, get,
\* send, clear, delete, list and cleanup can all be taken (create and send
\* within the bounds on objects, calls and history length).
C12_PendingBlocksNothing ==
  (Ready /\ calls # EmptyBag) =>
    /\ \A k \in Keys :
         ENABLED GetHistory(k) /\ ENABLED DeleteHandler(k) /\ ENABLED PutClear(k)
    /\ ENABLED GetSessions
    /\ ENABLED (\E m \in MaxAges : PostCleanup(m))
    /\ \A sid \in SuppliedIds \cup {Null} :
         (FreeObjs # {} /\ (sid = Null => FreshUuids # {})) => ENABLED PostSession(sid, 0)
    /\ \A k \in Keys, m \in Msgs :
         (sessions[k] # NoObj => /\ BagCardinality(calls) < MaxCalls
                                 /\ Len(heap[sessions[k]].history) + Pending(sessions[k]) < MaxHist)
           => ENABLED PostMessage(k, m)

\* a history read has been answered on one session while a send is pending
\* on the other registered session
C12_Witness ==
  /\ program = "server"
  /\ res.op = "getSessionHistory" /\ res.status = 200
  /\ Cardinality(Registered) = 2
  /\ \E k \in Registered : Pending(sessions[k]) > 0
  /\ \E k \in Registered : Pending(sessions[k]) = 0

\* C13: the lastActivity of a session never moves backwards while the session
\* stays registered, and every completed send and every clear sets it to the
\* time of that step.
C13_LastActivityMonotone ==
  /\ [][\A k \in Keys :
         (sessions[k] # NoObj /\ sessions'[k] = sessions[k]) =>
           FromISO(heap'[sessions[k]].lastActivity) >= FromISO(heap[sessions[k]].lastActivity)]_vars
  /\ [][\A call \in BagToSet(calls) : \A t \in Texts :
         (GatewayResolve(call, t) /\ KeysOf(call.session) # {}) =>
           FromISO(heap'[call.session].lastActivity) = now]_vars
  /\ [][\A k \in Registered :
         PutClear(k) => FromISO(heap'[sessions[k]].lastActivity) = now]_vars

\* a send has completed on a registered session created the day before: its
\* lastActivity is the present time, later than its createdAt
C13_Witness ==
  /\ program = "server"
  /\ res.op = "sendMessage" /\ res.status = 200
  /\ \E k \in Registered :
       /\ heap[sessions[k]].history # <<>>
       /\ FromISO(heap[sessions[k]].lastActivity) = now
       /\ heap[sessions[k]].createdAt[1] < heap[sessions[k]].lastActivity[1]

\* C14: createSession returns a new session with createdAt equal to
\* lastActivity, an empty history, and the supplied id or else a fresh one.
C14_CreateReturnsFresh ==
  [][\A sid \in SuppliedIds \cup {Null} : \A d \in ClockDrift :
       PostSession(sid, d) =>
         \E k \in Keys :
           /\ sid # Null => k = sid
           /\ sid = Null => (k \in Uuids /\ sessions[k] = NoObj)
           /\ sessions'[k] # NoObj /\ sessions'[k] # sessions[k]
           /\ heap'[sessions'[k]].id = k
           /\ heap'[sessions'[k]].history = <<>>
           /\ heap'[sessions'[k]].createdAt = heap'[sessions'[k]].lastActivity]_vars

\* the fields of a summary: values copied out of the session, none of them
\* the session object or its history array
SummaryFields == {"id", "createdAt", "lastActivity", "messageCount"}

\* C15: getAllSessions returns one summary per registered session and no
\* other, each with the id, createdAt, lastActivity and history length of its
\* session, and a count equal to the number of registered sessions; a summary
\* holds copies of these values only, and the listing changes nothing.
C15_ListIsExact ==
  /\ [](/\ GetAllSessions.count = Cardinality(Registered)
        /\ Cardinality(GetAllSessions.sessions) = Cardinality(Registered)
        /\ \A k \in Registered :
             [id |-> k,
              createdAt |-> heap[sessions[k]].createdAt,
              lastActivity |-> heap[sessions[k]].lastActivity,
              messageCount |-> Len(heap[sessions[k]].history)] \in GetAllSessions.sessions
        /\ \A s \in GetAllSessions.sessions :
             DOMAIN s = SummaryFields /\ s.id \in Registered)
  /\ [][GetSessions => (res'.status = 200 /\ UNCHANGED <<sessions, heap, calls>>)]_vars

\* the list has been answered with two sessions registered, one with an
\* exchange in its history and one without
C15_Witness ==
  /\ program = "server"
  /\ res.op = "getAllSessions" /\ res.status = 200
  /\ GetAllSessions.count = 2
  /\ \E s \in GetAllSessions.sessions : s.messageCount = 0
  /\ \E s \in GetAllSessions.sessions : s.messageCount = 1

\* C16: a send request without sessionId or without message is answered 400
\* and touches nothing: the map, every session and the suspended provider
\* calls are as before, and no provider call is started.
C16_ValidationFirst ==
  [][\A sid \in Keys \cup {Null} : \A m \in Msgs \cup {Null} :
       ((sid = Null \/ m = Null) /\ PostMessage(sid, m)) =>
         /\ res'.op = "sendMessage" /\ res'.status = 400
         /\ UNCHANGED <<sessions, heap, calls>>]_vars

\* a request lacking a field has been answered 400 while a session is
\* registered and a provider call is pending on it
C16_Witness ==
  /\ program = "server"
  /\ res.op = "sendMessage" /\ res.status = 400
  /\ \E k \in Registered : Pending(sessions[k]) = 1

\* C17: every clear recreates the provider chat context: after the clear of
\* an HTTP session, and after '/clear' in the CLI, the chat context is a new
\* one that holds no turn and the recorded history is empty.
C17_ClearRecreatesChat ==
  /\ [][\A k \in Registered :
         PutClear(k) =>
           /\ heap'[sessions[k]].chatSession = StartChat
           /\ heap'[sessions[k]].history = <<>>]_vars
  /\ [][CliLine(ClearCmd) =>
           /\ cli'.chatSession = StartChat
           /\ cli'.conversationHistory = <<>>]_vars

\* C18: started without the API key, the process does one thing, exit with
\* code 1, and stays exited: it never runs, so no request is answered, no
\* session or chat context is created and no message is sent to the
\* provider.  This holds of the server and of the CLI.
C18_NoKeyIsFatal ==
  /\ [][(~proc.apiKey /\ proc.pc = "start") =>
          (proc'.pc = "exited" /\ proc'.exitCode = 1)]_vars
  /\ [][proc.pc = "exited" => UNCHANGED vars]_vars
  /\ [](~proc.apiKey =>
          /\ proc.pc # "running"
          /\ Registered = {} /\ LiveObjs = {}
          /\ calls = EmptyBag
          /\ res = NoResponse
          /\ cli.chatSession = NoChat
          /\ cli.pc # "await"
          /\ cli.conversationHistory = <<>>)

\* the server process, started without the key, has exited with code 1
C18_Witness ==
  /\ program = "server"
  /\ ~proc.apiKey
  /\ proc.pc = "exited" /\ proc.exitCode = 1

\* the input lines that are one of exit, quit, bye and goodbye, whatever the
\* case of their letters and the blanks around them
C19_ExitLines ==
  {<<"e", "x", "i", "t">>, <<" ", "Q", "u", "i", "t", " ">>, <<"B", "Y", "E">>,
   <<"g", "o", "o", "d", "b", "y", "e">>}

\* C19: in the CLI a line that is exit, quit, bye or goodbye (in any case,
\* blanks around it ignored), and no other line, ends the chat: close() runs,
\* the loop reads no further line, the line is neither sent to the provider
\* nor stored in the history, and close() runs its shutdown steps at most
\* once however often it is called.
C19_ExitEndsChat ==
  /\ [][\A l \in Lines :
         CliLine(l) =>
           IF l \in C19_ExitLines
             THEN /\ cli'.isClosing
                  /\ cli'.shutdowns = 1
                  /\ cli'.pc \in {"showHistory", "done"}
                  /\ cli'.conversationHistory = cli.conversationHistory
                  /\ cli'.chatSession = cli.chatSession
             ELSE /\ ~cli'.isClosing
                  /\ cli'.pc \in {"prompt", "await"}]_vars
  /\ [](cli.shutdowns <= 1)
  /\ [](cli.isClosing => cli.pc \in {"showHistory", "done"})
  /\ [][cli.isClosing =>
          /\ cli'.isClosing
          /\ cli'.conversationHistory = cli.conversationHistory
          /\ cli'.chatSession = cli.chatSession]_vars

\* the chat has ended after one exchange: close() has run its steps once and
\* the history holds that exchange only
C19_Witness ==
  /\ program = "cli"
  /\ cli.isClosing /\ cli.pc = "done"
  /\ cli.shutdowns = 1
  /\ Len(cli.conversationHistory) = 1
  /\ cli.conversationHistory[1].user \notin C19_ExitLines

\* C20: when a send is answered with success, the session registered under
\* the id it reports holds its exchange: a session deleted, evicted or
\* replaced while the provider call was pending does not make the send
\* succeed with an exchange no registered session has.
C20_SuccessIsRecorded ==
  [][\A call \in BagToSet(calls) : \A t \in Texts :
       (GatewayResolve(call, t) /\ res'.status = 200) =>
         LET id == heap[call.session].id IN
         /\ sessions'[id] # NoObj
         /\ \E i \in 1..Len(heap'[sessions'[id]].history) :
              heap'[sessions'[id]].history[i] = [user |-> call.message, assistant |-> t]]_vars

\* C21: whatever the interleaving of sends and clears on a session, the
\* exchanges in its history are exactly the turns its present provider chat
\* context holds: a send in flight during a clear leaves no exchange in the
\* history that the new context lacks.
C21_HistoryMatchesChat ==
  \A k \in Registered :
    heap[sessions[k]].history = heap[sessions[k]].chatSession.turns

\* the values lastActivity takes while requests arrive
ActiveStamps == {ToISO(StartTime + h * SweepInterval) : h \in 0..ActiveHours}

\* C22: under the hourly sweep with the default maxAge of 24 hours, a
\* registered session that gets no further send or clear and is not replaced
\* is eventually removed; and a sweep removes exactly the sessions whose
\* inactivity exceeds maxAge, so a session is gone at the first sweep after
\* that and one that stays active within maxAge is never swept.
C22_SweepEvictsIdle ==
  /\ \A k \in Keys : \A o \in Objs : \A t \in ActiveStamps :
       (sessions[k] = o /\ heap[o].lastActivity = t)
         ~> (sessions[k] # o \/ heap[o].lastActivity # t)
  /\ [][SweepTimer =>
          \A k \in Registered :
            sessions'[k] = NoObj <=>
              now - FromISO(heap[sessions[k]].lastActivity) > DefaultMaxAge]_vars

\* a session that was active after its creation has been swept an hour after
\* its inactivity reached maxAge, although a send on it is pending
C22_Witness ==
  \E call \in BagToSet(calls) :
    /\ sessions[heap[call.session].id] = NoObj
    /\ heap[call.session].lastActivity # heap[call.session].createdAt
    /\ now - FromISO(heap[call.session].lastActivity) = DefaultMaxAge + SweepInterval

\* C23: every key of the registry maps to a session whose id field is that
\* key, and no session object is registered under two keys.
C23_KeysAreIds ==
  /\ \A k \in Registered : heap[sessions[k]].id = k
  /\ \A j, k \in Registered : sessions[j] = sessions[k] => j = k

\* a session under a supplied id and one under a generated id, side by side
C23_Witness ==
  /\ SuppliedIds \cap Registered # {}
  /\ Uuids \cap Registered # {}

\* the read requests
Reads ==
  \/ \E k \in Keys : GetHistory(k)
  \/ GetSessions
  \/ Health
  \/ Info

\* C24: getSessionHistory, getAllSessions, /health and /api/info leave the
\* registry as it was: the same ids, and for each session the same history,
\* createdAt and lastActivity, so that a cleanup with any maxAge removes the
\* same sessions after the read as before it.
C24_ReadsChangeNothing ==
  [][Reads =>
       /\ Registered' = Registered
       /\ \A k \in Registered :
            /\ heap'[sessions'[k]].history = heap[sessions[k]].history
            /\ heap'[sessions'[k]].createdAt = heap[sessions[k]].createdAt
            /\ heap'[sessions'[k]].lastActivity = heap[sessions[k]].lastActivity
       /\ \A m \in MaxAges : Expired(m)' = Expired(m)]_vars

\* a history read has been answered for a session idle since an earlier time
C24_Witness ==
  /\ res # NoResponse
  /\ res.op = "getSessionHistory"
  /\ res.status = 200
  /\ \E k \in Registered : FromISO(heap[sessions[k]].lastActivity) < now

\* the lines typed that start with '/'
C25_CommandLines == {l \in Lines : l # <<>> /\ Head(l) = "/"}

\* the lines typed that hold nothing but blanks
C25_BlankLines == {l \in Lines : \A i \in 1..Len(l) : l[i] = " "}

====
